---- MODULE Spec2Model ----
(***************************************************************************)
(* Model of src/src/components/Custom/Profile.jsx: the therapist profile   *)
(* panel.  One mount of the component is one behaviour: the identity       *)
(* resolver, the profile query (useQuery, retry: 1), the form holder, the  *)
(* updater (useMutation), the image picker and the preview cleanup.        *)
(*                                                                         *)
(* JavaScript values are records [t, s, n, o]: t is the type tag, s the    *)
(* text of a string as a sequence of tokens (so that includes, startsWith  *)
(* and concatenation are computed, not assumed), n the number, o the own   *)
(* properties of an object.  React renders and effects that follow a state *)
(* change run to quiescence inside the action that caused the change.      *)
(*                                                                         *)
(* Library semantics relied on (@tanstack/react-query, array form of       *)
(* invalidateQueries): isLoading is status = 'loading'; a query without    *)
(* data keeps status 'loading' through its retry; a fetch that fails for   *)
(* good sets status 'error' and keeps the data; setQueryData sets status   *)
(* 'success'; invalidateQueries refetches the observed query, restarting a *)
(* fetch in flight; data that is deep-equal keeps its identity, so the     *)
(* therapist effect reruns only when the record changed.                   *)
(*                                                                         *)
(* Scope: the handlers are taken as invokable whenever the form is         *)
(* rendered, although the shipped markup disables the inputs (lines        *)
(* 293-300, 330) and never calls the updater (lines 204, 224); refetch     *)
(* (line 79) is never called and is no action; the stored token does not   *)
(* change during a mount; one update is in flight at a time; a behaviour   *)
(* ends with the unmount.                                                  *)
(***************************************************************************)
EXTENDS Integers, Sequences, FiniteSets, TLC

VARIABLES
  phase,        \* "init" (constructed), "mounted", "unmounted"
  token,        \* localStorage['therapyToken']
  therapistId,  \* useState(null), line 39
  cache,        \* query cache data, keyed by the second element of the query key
  qStatus,      \* status of the observed query: "loading", "success", "error"
  qFetch,       \* fetchStatus of the observed query: "idle", "fetching"
  attempts,     \* read requests issued by the current (or last) load
  form,         \* react-hook-form field values
  snapshot,     \* initialValues, line 40
  preview,      \* imagePreview, line 38
  nextBlob,     \* number of the next object URL createObjectURL hands out
  revokeLog,    \* the calls of URL.revokeObjectURL, in order
  putBody,      \* the multipart body of the update request in flight, or NoPut
  putCount,     \* update requests issued
  updates,      \* updater invocations
  edits,        \* field edits
  last          \* the step just taken: operation, response or file, error text

vars == <<phase, token, therapistId, cache, qStatus, qFetch, attempts, form,
          snapshot, preview, nextBlob, revokeLog, putBody,
          putCount, updates, edits, last>>

----------------------------------------------------------------------------
(* Bounds of the model                                                      *)

MaxUpdates == 1
MaxBlobs == 2
MaxEdits == 1

----------------------------------------------------------------------------
(* JavaScript values                                                        *)

NoProps == <<>>

Undef == [t |-> "undef", s |-> <<>>, n |-> 0, o |-> NoProps]
Null == [t |-> "null", s |-> <<>>, n |-> 0, o |-> NoProps]
Str(toks) == [t |-> "str", s |-> toks, n |-> 0, o |-> NoProps]
Num(k) == [t |-> "num", s |-> <<>>, n |-> k, o |-> NoProps]
Obj(props) == [t |-> "obj", s |-> <<>>, n |-> 0, o |-> props]
File(type, size) == [t |-> "file", s |-> <<type>>, n |-> size, o |-> NoProps]

EmptyStr == Str(<<>>)

\* JavaScript truthiness
Truthy(v) ==
  CASE v.t = "undef" -> FALSE
    [] v.t = "null" -> FALSE
    [] v.t = "str" -> v.s # <<>>
    [] v.t = "num" -> v.n # 0
    [] OTHER -> TRUE

\* typeof v
TypeOf(v) ==
  CASE v.t = "undef" -> "undefined"
    [] v.t = "str" -> "string"
    [] v.t = "num" -> "number"
    [] OTHER -> "object"

\* v.k (v?.k where v may be null or undefined)
Get(v, k) == IF v.t = "obj" /\ k \in DOMAIN v.o THEN v.o[k] ELSE Undef

\* a || b
Or(a, b) == IF Truthy(a) THEN a ELSE b

Digit(d) ==
  CASE d = 0 -> "0" [] d = 1 -> "1" [] d = 2 -> "2" [] d = 3 -> "3"
    [] d = 4 -> "4" [] d = 5 -> "5" [] d = 6 -> "6" [] d = 7 -> "7"
    [] d = 8 -> "8" [] OTHER -> "9"

RECURSIVE IntToStr(_)
IntToStr(k) == IF k < 10 THEN Digit(k) ELSE IntToStr(k \div 10) \o Digit(k % 10)

\* String(v), v.toString(), `${v}`
JsString(v) ==
  CASE v.t = "str" -> v
    [] v.t = "num" -> Str(<<IntToStr(v.n)>>)
    [] v.t = "undef" -> Str(<<"undefined">>)
    [] v.t = "null" -> Str(<<"null">>)
    [] OTHER -> Str(<<"[object Object]">>)

\* a + b on strings
Concat(a, b) == Str(a.s \o b.s)

\* s.includes(needle), needle one token
Includes(v, needle) == \E i \in 1..Len(v.s) : v.s[i] = needle

\* s.startsWith(prefix), prefix one token
StartsWith(v, prefix) == Len(v.s) > 0 /\ v.s[1] = prefix

----------------------------------------------------------------------------
(* Inputs: stored tokens, profile records, response bodies, files           *)

FallbackId == 35

\* localStorage.getItem('therapyToken'): null, or a string.  A string is
\* empty, not a decodable JWT ("bad"), or a JWT with the given payload.
NoToken == [kind |-> "none", payload |-> Undef]
EmptyToken == [kind |-> "empty", payload |-> Undef]
BadToken == [kind |-> "bad", payload |-> Undef]
Jwt(payload) == [kind |-> "jwt", payload |-> payload]

ClaimId == Num(7)

Tokens ==
  { NoToken, EmptyToken, BadToken,
    Jwt(Obj([therapist_id |-> ClaimId, role |-> Str(<<"therapist">>)])),
    Jwt(Obj([role |-> Str(<<"therapist">>)])),
    Jwt(Obj([therapist_id |-> Num(0)])) }

\* the tokens met while the whole panel is in use
PanelTokens ==
  { NoToken,
    Jwt(Obj([therapist_id |-> ClaimId, role |-> Str(<<"therapist">>)])),
    Jwt(Obj([role |-> Str(<<"therapist">>)])),
    Jwt(Obj([therapist_id |-> Num(0)])) }

\* Query keys ['therapist', id]: the ids the resolver can produce, and null
Keys == {Null, Num(FallbackId), ClaimId}

R1 ==
  Obj([full_name |-> Str(<<"Ann">>), phone |-> Str(<<"94771">>),
       email |-> Str(<<"a@b.com">>), address |-> Str(<<"1 Main St">>),
       nic_number |-> Str(<<"N1">>), work_start_year |-> Num(2015),
       image_path |-> Str(<<"uploads/a.png">>)])

\* a sparse record: falsy and missing fields, the year as a string, no image
R2 ==
  Obj([full_name |-> Str(<<"Bob">>), phone |-> Null, email |-> EmptyStr,
       nic_number |-> Str(<<"N2">>), work_start_year |-> Str(<<"1999">>),
       image_path |-> Null])

\* R1 after an update of the national id and the image
R3 ==
  Obj([full_name |-> Str(<<"Ann">>), phone |-> Str(<<"94771">>),
       email |-> Str(<<"a@b.com">>), address |-> Str(<<"1 Main St">>),
       nic_number |-> Str(<<"X">>), work_start_year |-> Num(2015),
       image_path |-> Str(<<"uploads/b.png">>)])

Records == {R1, R2, R3}

Bare(r) == r
Wrapped(r) == Obj([data |-> r])
WrappedMsg(r) == Obj([data |-> r, message |-> Str(<<"Saved">>)])

HtmlLower == Str(<<"<!doctype html", "><html><body>Cannot GET</body></html>">>)
HtmlUpper == Str(<<"<!DOCTYPE html", "><html><body>Cannot GET</body></html>">>)
HtmlBodies == {HtmlLower, HtmlUpper}

\* bodies that carry no record: text, the empty body, JSON null, a JSON
\* number, a wrapper around a string
JunkBodies == {Str(<<"OK">>), EmptyStr, Null, Num(5), Obj([data |-> Str(<<"x">>)])}

\* an object whose data property is falsy: the object itself is the payload
NullWrapped == Obj([data |-> Null, full_name |-> Str(<<"Cy">>)])

ReadBodies ==
  {Bare(R1), Wrapped(R1), Bare(R2), Wrapped(R2), NullWrapped}
    \cup HtmlBodies \cup JunkBodies

\* A read response: net is FALSE when no response arrived at all
Resp(status, body) == [net |-> TRUE, status |-> status, body |-> body]
NetworkError == [net |-> FALSE, status |-> 0, body |-> Undef]

\* every shape of read response: the loader is checked against all of them
ReadResponses ==
  {Resp(200, b) : b \in ReadBodies}
    \cup {Resp(404, b) : b \in {HtmlUpper, Bare(R1)}}
    \cup {Resp(401, Obj([error |-> Str(<<"Unauthorized">>)]))}
    \cup {Resp(500, b) : b \in {HtmlLower, Bare(R1)}}
    \cup {NetworkError}

\* the read responses met while the form is in use
PanelResponses ==
  {Resp(200, Bare(R1)), Resp(200, Wrapped(R3)), Resp(404, HtmlUpper),
   Resp(500, Bare(R1))}

UpdateResponses ==
  {Resp(200, b) : b \in {Bare(R3), Wrapped(R3), WrappedMsg(R3), Wrapped(R1)}}
    \cup {Resp(400, Obj([error |-> Str(<<"Invalid NIC">>)])),
          Resp(500, HtmlLower), NetworkError}

MaxImageBytes == 5 * 1024 * 1024

Files ==
  {File("image/png", MaxImageBytes), File("image/png", MaxImageBytes + 1),
   File("image/gif", 1024), File("image/webp", 1024),
   File("image/jpeg", 0), File("image/jpg", 2048)}

\* the files picked while the whole panel is in use
PanelFiles ==
  {File("image/png", MaxImageBytes), File("image/gif", 1024),
   File("image/webp", 1024)}

FieldNames ==
  {"full_name", "phone", "email", "address", "nic_number", "work_start_year",
   "image"}

EditInputs == {<<"nic_number", Str(<<"X">>)>>, <<"address", EmptyStr>>}

----------------------------------------------------------------------------
(* The pure parts of the component                                          *)

\* the updater without its token check
TokenPresent_Always(tok) == TRUE

\* if (token): getItem gives null or a string; the empty string is falsy
TokenPresent(tok) == tok.kind \in {"bad", "jwt"}

\* jwtDecode(token): throws on a string that is no JWT, else the payload
JwtDecode(tok) ==
  IF tok.kind = "jwt" THEN [ok |-> TRUE, payload |-> tok.payload]
  ELSE [ok |-> FALSE, payload |-> Undef]

\* the fallback taken for a decoded token without the claim as well
ResolveId_FallbackWithoutClaim(tok, current) ==
  IF tok.kind = "jwt" /\ Truthy(Get(tok.payload, "therapist_id"))
  THEN Get(tok.payload, "therapist_id")
  ELSE Num(FallbackId)

\* the identifier hardcoded: the token is never consulted
ResolveId_Hardcoded(tok, current) == Num(FallbackId)

\* the therapistId effect run on mount: the identifier state afterwards
ResolveId(tok, current) ==
  IF TokenPresent(tok)
  THEN LET decoded == JwtDecode(tok)
       IN IF decoded.ok
          THEN IF Truthy(Get(decoded.payload, "therapist_id"))
               THEN Get(decoded.payload, "therapist_id")
               ELSE current
          ELSE Num(FallbackId)
  ELSE Num(FallbackId)

\* enabled: !!therapistId
Enabled(id) == Truthy(id)

\* retry: 1
Retry == 1

\* the library's default policy (three retries), as when retry is left out
ShouldRetry_Default(failureCount) == failureCount < 3

\* the retry policy: a failed attempt is retried while the failures before
\* it are fewer than retry
ShouldRetry(failureCount) == failureCount < Retry

\* axios' default validateStatus: only 2xx settles
ReadValidateStatus_Default(status) == status >= 200 /\ status < 300

\* validateStatus of the read request
ReadValidateStatus(status) == status < 500

\* validateStatus of the update request
UpdateValidateStatus(status) == status >= 200 /\ status < 300

Failure(msg, resp) == [ok |-> FALSE, data |-> Undef, message |-> msg, resp |-> resp]
Success(data) == [ok |-> TRUE, data |-> data, message |-> "", resp |-> Undef]

MsgNetwork == "Network Error"
MsgStatus == "Request failed with status code"
MsgNotFound == "Therapist profile not found"
MsgHtml == "Invalid response: Received HTML from server"
MsgFormat == "Invalid response format from server"
MsgAuth == "Authentication token missing"

\* axios: a request rejects when no response arrives or validateStatus refuses
AxiosSettles(resp, accepted) == resp.net /\ accepted

AxiosError(resp) ==
  IF resp.net THEN Failure(MsgStatus, resp.body) ELSE Failure(MsgNetwork, Undef)

\* the body taken as the record, wrapped or not
Unwrap_BodyOnly(data) == data

\* response.data?.data || response.data
Unwrap(data) == Or(Get(data, "data"), data)

\* queryFn without the check of the payload's shape (lines 103-106)
QueryFn_HtmlCheckOnly(resp) ==
  IF ~AxiosSettles(resp, ReadValidateStatus(resp.status))
  THEN AxiosError(resp)
  ELSE IF resp.status = 404
  THEN Failure(MsgNotFound, Undef)
  ELSE IF TypeOf(resp.body) = "string" /\ Includes(resp.body, "<!doctype html")
  THEN Failure(MsgHtml, Undef)
  ELSE Success(Unwrap(resp.body))

\* queryFn: the outcome of one read attempt
QueryFn(resp) ==
  IF ~AxiosSettles(resp, ReadValidateStatus(resp.status))
  THEN AxiosError(resp)
  ELSE IF resp.status = 404
  THEN Failure(MsgNotFound, Undef)
  ELSE IF TypeOf(resp.body) = "string" /\ Includes(resp.body, "<!doctype html")
  THEN Failure(MsgHtml, Undef)
  ELSE LET therapistData == Unwrap(resp.body)
       IN IF ~Truthy(therapistData) \/ TypeOf(therapistData) # "object"
          THEN Failure(MsgFormat, Undef)
          ELSE Success(therapistData)

\* useForm defaultValues
EmptyForm ==
  [k \in FieldNames |-> IF k = "image" THEN Null ELSE EmptyStr]

\* the defaultValues the therapist effect builds
FormDefaults(therapist) ==
  [k \in FieldNames |->
     CASE k = "image" -> Null
       [] k = "work_start_year" ->
            IF Truthy(Get(therapist, k)) THEN JsString(Get(therapist, k))
            ELSE EmptyStr
       [] OTHER -> Or(Get(therapist, k), EmptyStr)]

BaseUrl == Str(<<"http://localhost:5000/">>)

\* therapist?.image_path ? `http://localhost:5000/${therapist.image_path}` : null
ServerPreview(therapist) ==
  IF Truthy(Get(therapist, "image_path"))
  THEN Concat(BaseUrl, JsString(Get(therapist, "image_path")))
  ELSE Null

\* object[key] of a plain object kept as a function
Prop(object, key) == IF key \in DOMAIN object THEN object[key] ELSE Undef

hasChanges(current, initial) ==
  \E key \in DOMAIN current : current[key] # Prop(initial, key)

\* URL.createObjectURL
BlobUrl(k) == Str(<<"blob:", IntToStr(k)>>)

\* the cleanup of the preview effect: the revokeObjectURL calls it makes
Cleanup(imagePreview) ==
  IF Truthy(imagePreview) /\ StartsWith(imagePreview, "blob:")
  THEN <<imagePreview>>
  ELSE <<>>

\* the cleanup registered once, with no dependency: nothing is revoked when
\* the preview changes
RevokeOnChange_Never(old, new) == <<>>

\* the effect's cleanup runs when the dependency changes
RevokeOnChange(old, new) == IF new # old THEN Cleanup(old) ELSE <<>>

\* the size test written as >=
SizeOk_Strict(file) == file.n < MaxImageBytes

SizeOk(file) == ~(file.n > MaxImageBytes)

AcceptedTypes == {"image/png", "image/jpg", "image/jpeg", "image/gif"}

TypeOk(file) == file.s[1] \in AcceptedTypes

\* the FormData the updater builds: only the truthy fields are appended
FormDataOf(data) ==
  [k \in {f \in DOMAIN data : Truthy(data[f])} |-> data[k]]

NoPut == [sent |-> FALSE, fd |-> <<>>]

NoToast == [kind |-> "none", msg |-> EmptyStr]
ToastError(msg) == [kind |-> "error", msg |-> msg]
ToastSuccess(msg) == [kind |-> "success", msg |-> msg]

\* error.response?.data?.error || error.message || 'Failed to update profile'
ErrorText(err) ==
  Or(Get(err.resp, "error"), Or(Str(<<err.message>>), Str(<<"Failed to update profile">>)))

\* data.message || 'Profile updated successfully'
SuccessText(data) == Or(Get(data, "message"), Str(<<"Profile updated successfully">>))

\* the render branches: isLoading, isError, else the form
Display(status) ==
  IF status = "loading" THEN "loading"
  ELSE IF status = "error" THEN "error"
  ELSE "ready"

----------------------------------------------------------------------------
(* The state machine                                                        *)

NoFile == File("", 0)

\* the record of a step: the operation, the response it handled and the
\* error it raised, the file it was given, the notification it emitted
Step(op) ==
  [op |-> op, resp |-> NetworkError, msg |-> "", file |-> NoFile, toast |-> NoToast]
ReadStep(op, resp, msg) ==
  [op |-> op, resp |-> resp, msg |-> msg, file |-> NoFile, toast |-> NoToast]
FileStep(op, file, toast) ==
  [op |-> op, resp |-> NetworkError, msg |-> "", file |-> file, toast |-> toast]
UpdateStep(op, resp, msg, toast) ==
  [op |-> op, resp |-> resp, msg |-> msg, file |-> NoFile, toast |-> toast]

mounted == phase = "mounted"

\* the data the component reads from useQuery
therapist == cache[therapistId]

display == Display(qStatus)

InitWith(tokens) ==
  /\ phase = "init"
  /\ token \in tokens
  /\ therapistId = Null
  /\ cache = [k \in Keys |-> Undef]
  /\ qStatus = "loading"
  /\ qFetch = "idle"
  /\ attempts = 0
  /\ form = EmptyForm
  /\ snapshot = <<>>
  /\ preview = Null
  /\ nextBlob = 1
  /\ revokeLog = <<>>
  /\ putBody = NoPut
  /\ putCount = 0
  /\ updates = 0
  /\ edits = 0
  /\ last = Step("new")

Init == InitWith(PanelTokens)

\* First render and the mount effects: the identity resolver (lines 43-58)
Mount ==
  /\ phase = "init"
  /\ phase' = "mounted"
  /\ therapistId' = ResolveId(token, therapistId)
  /\ last' = Step("mount")
  /\ UNCHANGED <<token, cache, qStatus, qFetch, attempts, form, snapshot,
                 preview, nextBlob, revokeLog, putBody, putCount, updates, edits>>

\* The query observer issues the first read once the query is enabled
FetchStart ==
  /\ mounted
  /\ Enabled(therapistId)
  /\ qFetch = "idle" /\ attempts = 0 /\ therapist = Undef
  /\ qFetch' = "fetching"
  /\ qStatus' = "loading"
  /\ attempts' = 1
  /\ last' = Step("fetch")
  /\ UNCHANGED <<phase, token, therapistId, cache, form, snapshot, preview,
                 nextBlob, revokeLog, putBody, putCount, updates,
                 edits>>

\* The state of the panel after the therapist effect (lines 119-135) has seen
\* the query data go from old to new, starting from form f, snapshot sn and
\* preview p.  The effect runs when the data changed and is truthy; the
\* preview cleanup (lines 138-144) runs when the preview changed.
AfterTherapist(old, new, f, sn, p) ==
  IF mounted /\ new # old /\ Truthy(new)
  THEN [form |-> FormDefaults(new), snapshot |-> FormDefaults(new),
        preview |-> ServerPreview(new),
        revoked |-> RevokeOnChange(p, ServerPreview(new))]
  ELSE [form |-> f, snapshot |-> sn, preview |-> p, revoked |-> <<>>]

\* What a read attempt answered by resp leaves behind (queryFn, the retry
\* policy, the cache write and the effects of the new data)
ReadOutcome(resp) ==
  LET out == QueryFn(resp)
      view == AfterTherapist(therapist, out.data, form, snapshot, preview)
  IN IF out.ok
     THEN [op |-> "readOk", data |-> out.data, status |-> "success",
           fetch |-> "idle", attempts |-> attempts, view |-> view]
     ELSE IF mounted /\ ShouldRetry(attempts - 1)
     THEN [op |-> "readRetry", data |-> therapist, status |-> qStatus,
           fetch |-> "fetching", attempts |-> attempts + 1,
           view |-> AfterTherapist(therapist, therapist, form, snapshot, preview)]
     ELSE [op |-> "readFail", data |-> therapist, status |-> "error",
           fetch |-> "idle", attempts |-> attempts,
           view |-> AfterTherapist(therapist, therapist, form, snapshot, preview)]

\* A read attempt completes
ReadRespond(resp) ==
  /\ mounted
  /\ qFetch = "fetching"
  /\ LET r == ReadOutcome(resp)
     IN /\ cache' = [cache EXCEPT ![therapistId] = r.data]
        /\ qStatus' = r.status
        /\ qFetch' = r.fetch
        /\ attempts' = r.attempts
        /\ form' = r.view.form
        /\ snapshot' = r.view.snapshot
        /\ preview' = r.view.preview
        /\ revokeLog' = revokeLog \o r.view.revoked
        /\ last' = ReadStep(r.op, resp, QueryFn(resp).message)
  /\ UNCHANGED <<phase, token, therapistId, nextBlob, putBody, putCount,
                 updates, edits>>

\* field.onChange of a text field
EditField(name, value) ==
  /\ mounted /\ display = "ready"
  /\ edits < MaxEdits
  /\ form' = [form EXCEPT ![name] = value]
  /\ edits' = edits + 1
  /\ last' = Step("edit")
  /\ UNCHANGED <<phase, token, therapistId, cache, qStatus, qFetch, attempts,
                 snapshot, preview, nextBlob, revokeLog, putBody,
                 putCount, updates>>

\* handleImageChange with a file chosen (lines 212-224)
PickFile(file) ==
  /\ mounted /\ display = "ready"
  /\ nextBlob <= MaxBlobs
  /\ IF ~SizeOk(file)
     THEN /\ last' = FileStep("pick", file,
                     ToastError(Str(<<"Image size must be less than 5MB">>)))
          /\ UNCHANGED <<form, preview, nextBlob, revokeLog>>
     ELSE IF ~TypeOk(file)
     THEN /\ last' = FileStep("pick", file,
                     ToastError(Str(<<"Only PNG, JPG, JPEG, and GIF images are allowed">>)))
          /\ UNCHANGED <<form, preview, nextBlob, revokeLog>>
     ELSE /\ form' = [form EXCEPT !["image"] = file]
          /\ preview' = BlobUrl(nextBlob)
          /\ nextBlob' = nextBlob + 1
          /\ revokeLog' = revokeLog \o RevokeOnChange(preview, BlobUrl(nextBlob))
          /\ last' = FileStep("pick", file, NoToast)
  /\ UNCHANGED <<phase, token, therapistId, cache, qStatus, qFetch, attempts,
                 snapshot, putBody, putCount, updates, edits>>

\* handleImageChange with the selection cleared (lines 225-229)
ClearFile ==
  /\ mounted /\ display = "ready"
  /\ form' = [form EXCEPT !["image"] = Null]
  /\ preview' = ServerPreview(therapist)
  /\ revokeLog' = revokeLog \o RevokeOnChange(preview, ServerPreview(therapist))
  /\ last' = Step("clear")
  /\ UNCHANGED <<phase, token, therapistId, cache, qStatus, qFetch, attempts,
                 snapshot, nextBlob, putBody, putCount,
                 updates, edits>>

\* mutationFn without a stored token (lines 149-152), then onError
UpdateNoToken ==
  /\ mounted /\ display = "ready"
  /\ updates < MaxUpdates /\ ~putBody.sent
  /\ ~TokenPresent(token)
  /\ updates' = updates + 1
  /\ last' = UpdateStep("updateAuth", NetworkError, MsgAuth,
                        ToastError(ErrorText(Failure(MsgAuth, Undef))))
  /\ UNCHANGED <<phase, token, therapistId, cache, qStatus, qFetch, attempts,
                 form, snapshot, preview, nextBlob, revokeLog, putBody,
                 putCount, edits>>

\* mutationFn with a stored token: the update request is sent (lines 154-170)
UpdateSend ==
  /\ mounted /\ display = "ready"
  /\ updates < MaxUpdates /\ ~putBody.sent
  /\ TokenPresent(token)
  /\ putBody' = [sent |-> TRUE, fd |-> FormDataOf(form)]
  /\ putCount' = putCount + 1
  /\ updates' = updates + 1
  /\ last' = Step("updateSend")
  /\ UNCHANGED <<phase, token, therapistId, cache, qStatus, qFetch, attempts,
                 form, snapshot, preview, nextBlob, revokeLog, edits>>

\* onSuccess without the cache write
SetQueryData_Dropped(c, id, updated) == c

\* queryClient.setQueryData(['therapist', therapistId], updated): undefined
\* data leaves the entry alone
SetQueryData(c, id, updated) ==
  IF updated = Undef THEN c ELSE [c EXCEPT ![id] = updated]

\* the preview after onSuccess's setImagePreview (lines 180-182)
SuccessPreview(updated, p) ==
  IF Truthy(Get(updated, "image_path"))
  THEN JsString(Get(updated, "image_path"))
  ELSE p

\* onSuccess (lines 177-190)
UpdateSuccess(data) ==
  LET updated == Unwrap(data)
      newCache == SetQueryData(cache, therapistId, updated)
      p1 == SuccessPreview(updated, preview)
      view == AfterTherapist(therapist, newCache[therapistId], form, form, p1)
  IN /\ cache' = newCache
     /\ form' = view.form
     /\ snapshot' = view.snapshot
     /\ preview' = view.preview
     /\ revokeLog' = revokeLog \o RevokeOnChange(preview, p1) \o view.revoked
     \* invalidateQueries: the observed query is refetched in the background,
     \* a fetch in flight is cancelled and started again
     /\ qStatus' = IF newCache[therapistId] = Undef THEN qStatus ELSE "success"
     /\ IF Enabled(therapistId)
        THEN /\ qFetch' = "fetching"
             /\ attempts' = 1
                   ELSE UNCHANGED <<qFetch, attempts>>
     /\ last' = UpdateStep("updateOk", Resp(200, data), "",
                           ToastSuccess(SuccessText(data)))

\* onError (lines 191-197)
UpdateError(err) ==
  /\ last' = UpdateStep("updateFail", Resp(0, err.resp), err.message,
                        ToastError(ErrorText(err)))
  /\ UNCHANGED <<cache, form, snapshot, preview, revokeLog, qStatus, qFetch,
                 attempts>>

\* The update request completes
UpdateRespond(resp) ==
  /\ mounted
  /\ putBody.sent
  /\ putBody' = NoPut
  /\ IF AxiosSettles(resp, UpdateValidateStatus(resp.status))
     THEN UpdateSuccess(resp.body)
     ELSE UpdateError(AxiosError(resp))
  /\ UNCHANGED <<phase, token, therapistId, nextBlob, putCount, updates, edits>>

\* The panel is torn down: the cleanup of the preview effect runs
Unmount ==
  /\ mounted
  /\ phase' = "unmounted"
  /\ revokeLog' = revokeLog \o Cleanup(preview)
  /\ last' = Step("unmount")
  /\ UNCHANGED <<token, therapistId, cache, qStatus, qFetch, attempts, form,
                 snapshot, preview, nextBlob, putBody, putCount, updates, edits>>

Next ==
  \/ Mount
  \/ FetchStart
  \/ \E resp \in PanelResponses : ReadRespond(resp)
  \/ \E e \in EditInputs : EditField(e[1], e[2])
  \/ \E file \in PanelFiles : PickFile(file)
  \/ ClearFile
  \/ UpdateNoToken
  \/ UpdateSend
  \/ \E resp \in UpdateResponses : UpdateRespond(resp)
  \/ Unmount

Spec == Init /\ [][Next]_vars

\* The loader alone, against every shape of read response
NextLoad ==
  \/ Mount
  \/ FetchStart
  \/ \E resp \in ReadResponses : ReadRespond(resp)
  \/ Unmount

InitLoad == InitWith(Tokens)

SpecLoad == InitLoad /\ [][NextLoad]_vars

\* The image picker, against every file
NextImage ==
  \/ Mount
  \/ FetchStart
  \/ \E resp \in PanelResponses : ReadRespond(resp)
  \/ \E file \in Files : PickFile(file)
  \/ ClearFile
  \/ Unmount

SpecImage == Init /\ [][NextImage]_vars

----------------------------------------------------------------------------
(* Properties                                                               *)

ReadOps == {"readOk", "readRetry", "readFail"}

\* a token whose payload carries a usable therapist_id claim
HasIdClaim(tok) ==
  /\ tok.kind = "jwt"
  /\ tok.payload.t = "obj"
  /\ "therapist_id" \in DOMAIN tok.payload.o
  /\ tok.payload.o["therapist_id"].t = "num"
  /\ tok.payload.o["therapist_id"].n > 0

\* C1: once the resolver has run, the identifier is the token's therapist_id
\* claim when the token carries one, and the fallback 35 when the token is
\* missing or malformed; the resolver's step issues no read request.
C1_ResolvedIdentifier ==
  phase # "init" =>
    /\ HasIdClaim(token) => therapistId = token.payload.o["therapist_id"]
    /\ token.kind \in {"none", "empty", "bad"} => therapistId = Num(35)
    /\ last.op = "mount" => attempts = 0 /\ putCount = 0 /\ qFetch = "idle"

C1_Witness ==
  /\ last.op = "mount"
  /\ HasIdClaim(token)
  /\ therapistId = Num(7)

\* C2: right after a successful update answered {data: R} or R, the cache
\* entry of the identifier holds R, and the snapshot equals the form values,
\* so that hasChanges(form, snapshot) is false.
C2_UpdateMergedAndSnapshotReset ==
  last.op = "updateOk" =>
    /\ \A r \in Records :
         last.resp.body \in {Bare(r), Wrapped(r), WrappedMsg(r)}
           => cache[therapistId] = r
    /\ snapshot = form
    /\ ~hasChanges(form, snapshot)

C2_Witness ==
  /\ last.op = "updateOk"
  /\ last.resp.body = Wrapped(R3)
  /\ Get(cache[therapistId], "nic_number") = Str(<<"X">>)
  /\ form["nic_number"] = Str(<<"X">>)
  /\ snapshot = form
  /\ edits > 0

\* C3: a load issues at most two read requests; the error state is shown only
\* when the second attempt has failed and nothing is outstanding; the loading
\* state is shown while an attempt of the initial load is outstanding; a load
\* that succeeds (on the first attempt or on the retry) ends ready.
C3_RetriedOnce ==
  /\ attempts <= 2
  /\ mounted /\ display = "error" =>
       attempts = 2 /\ qFetch = "idle"
  /\ mounted /\ qFetch = "fetching" /\ therapist = Undef => display = "loading"
  /\ last.op = "readRetry" => attempts = 2 /\ qFetch = "fetching"
  /\ last.op = "readOk" => display = "ready" /\ qFetch = "idle"

C3_Witness ==
  /\ last.op = "readOk"
  /\ attempts = 2
  /\ display = "ready"

\* the bodies the claim calls markup
IsMarkup(body) == body \in HtmlBodies

\* a structured body with an object payload: an object whose data property
\* is an object, or is absent or empty so that the object itself is the payload
HasObjectPayload(body) ==
  /\ body.t = "obj"
  /\ \/ "data" \notin DOMAIN body.o
     \/ body.o["data"].t = "obj"
     \/ body.o["data"] \in {Null, Undef, EmptyStr, Num(0)}

InvalidResponse == {MsgHtml, MsgFormat}

\* C4: a read attempt is judged by status first and body second: 500 and
\* above is a transport error, 404 is not found, and any other status below
\* 500 is inspected: invalid response exactly when the body is markup or has
\* no object payload, a profile record otherwise.
C4_StatusThenBody ==
  last.op \in ReadOps /\ last.resp.net =>
    LET status == last.resp.status
        body == last.resp.body
    IN IF status >= 500
       THEN last.op # "readOk" /\ last.msg = MsgStatus
       ELSE IF status = 404
       THEN last.op # "readOk" /\ last.msg = MsgNotFound
       ELSE IF IsMarkup(body) \/ ~HasObjectPayload(body)
       THEN last.op # "readOk" /\ last.msg \in InvalidResponse
       ELSE /\ last.op = "readOk"
            /\ therapist = IF "data" \in DOMAIN body.o /\ body.o["data"].t = "obj"
                           THEN body.o["data"] ELSE body

C4_Witness ==
  /\ last.op = "readFail"
  /\ last.resp = Resp(404, Bare(R1))
  /\ last.msg = MsgNotFound
  /\ display = "error"

\* no HTML body is held by the cache or by a form field
NoMarkupStored ==
  /\ \A k \in Keys : cache[k] \notin HtmlBodies
  /\ \A f \in DOMAIN form : form[f] \notin HtmlBodies
  /\ \A f \in DOMAIN snapshot : snapshot[f] \notin HtmlBodies

\* C5 as stated: a read response with an HTML body always fails the attempt
\* with an invalid-response error, and is never stored.
C5_Original ==
  /\ last.op \in ReadOps /\ last.resp.net /\ IsMarkup(last.resp.body) =>
       last.op # "readOk" /\ last.msg \in InvalidResponse
  /\ NoMarkupStored

\* C5, amended: a read response with an HTML body always fails the attempt:
\* with an invalid-response error when its status is below 500 and not 404,
\* with not-found on 404 and with a transport error from 500 on; it is never
\* stored in the cache or copied into the form.
C5_MarkupNeverParsed ==
  /\ last.op \in ReadOps /\ last.resp.net /\ IsMarkup(last.resp.body) =>
       /\ last.op # "readOk"
       /\ last.resp.status >= 500 => last.msg = MsgStatus
       /\ last.resp.status = 404 => last.msg = MsgNotFound
       /\ last.resp.status < 500 /\ last.resp.status # 404 =>
            last.msg \in InvalidResponse
  /\ NoMarkupStored

C5_Witness ==
  /\ last.op = "readFail"
  /\ last.resp = Resp(200, HtmlUpper)
  /\ last.msg = MsgFormat
  /\ therapist = Undef

\* what a load leaves behind: the cached record, the form, the snapshot and
\* the preview
LoadView(resp) ==
  LET r == ReadOutcome(resp)
  IN <<r.op, r.data, r.view.form, r.view.snapshot, r.view.preview>>

\* C6: whenever a load is outstanding, answering it with {data: R} and
\* answering it with R leave the same cached record, form values, snapshot
\* and preview, for every record R.
C6_WrappedEqualsBare ==
  mounted /\ qFetch = "fetching" =>
    \A r \in Records :
      /\ LoadView(Resp(200, Wrapped(r))) = LoadView(Resp(200, Bare(r)))
      /\ LoadView(Resp(200, Bare(r)))[2] = r

C6_Witness ==
  /\ last.op = "readOk"
  /\ last.resp.body = Wrapped(R3)
  /\ therapist = R3
  /\ form["nic_number"] = Str(<<"X">>)
  /\ snapshot = form
  /\ preview = Str(<<"http://localhost:5000/", "uploads/b.png">>)

\* C7: an updater invoked with no stored token fails with the authentication
\* error before any update request is sent, reports it as an error
\* notification, and leaves cache, form, snapshot and preview as they were.
C7_NoTokenNoRequest ==
  [][ updates' = updates + 1 /\ token.kind \in {"none", "empty"} =>
        /\ last'.op = "updateAuth"
        /\ last'.msg = "Authentication token missing"
        /\ last'.toast = ToastError(Str(<<"Authentication token missing">>))
        /\ putCount' = 0
        /\ UNCHANGED <<cache, form, snapshot, preview, putBody, putCount,
                       revokeLog>> ]_vars

C7_Witness ==
  /\ last.op = "updateAuth"
  /\ last.toast.kind = "error"
  /\ token = NoToken
  /\ edits > 0
  /\ hasChanges(form, snapshot)
  /\ putCount = 0

\* C8: a picked file is accepted exactly when its size is at most 5 MiB and
\* its type is png, jpg, jpeg or gif; a rejected file changes neither the
\* pending image nor the preview; an accepted file becomes the pending image
\* and gets a newly created object URL as preview.
C8_FileAcceptance ==
  [][ last'.op = "pick" =>
        LET f == last'.file
            accepted ==
              /\ f.n <= 5242880
              /\ f.s[1] \in {"image/png", "image/jpg", "image/jpeg", "image/gif"}
        IN IF accepted
           THEN /\ form' = [form EXCEPT !["image"] = f]
                /\ StartsWith(preview', "blob:")
                /\ preview' \notin {BlobUrl(i) : i \in 1..(nextBlob - 1)}
                /\ preview' # preview
                /\ nextBlob' = nextBlob + 1
                /\ last'.toast = NoToast
           ELSE /\ UNCHANGED <<form, preview, nextBlob, revokeLog>>
                /\ last'.toast.kind = "error" ]_vars

C8_Witness ==
  /\ last.op = "pick"
  /\ last.file = File("image/png", 5242880)
  /\ form["image"] = File("image/png", 5242880)
  /\ preview = BlobUrl(nextBlob - 1)

Count(url, log) == Cardinality({j \in DOMAIN log : log[j] = url})

\* C9: every object URL created is revoked exactly once, when it stops being
\* the preview or when the panel unmounts: a created URL is unrevoked while
\* it is the preview of the mounted panel and revoked once otherwise; only
\* created object URLs are ever revoked.
C9_RevokedExactlyOnce ==
  /\ \A i \in 1..(nextBlob - 1) :
       Count(BlobUrl(i), revokeLog) =
         IF mounted /\ preview = BlobUrl(i) THEN 0 ELSE 1
  /\ \A j \in DOMAIN revokeLog :
       revokeLog[j] \in {BlobUrl(i) : i \in 1..(nextBlob - 1)}

C9_Witness ==
  /\ phase = "unmounted"
  /\ nextBlob = 3
  /\ revokeLog = <<BlobUrl(1), BlobUrl(2)>>
  /\ updates > 0

\* C10 as stated: while mounted the display only moves from loading to ready
\* or from loading to error (the model holds no explicit refetch).
C10_Original ==
  [][ mounted /\ mounted' /\ display' # display =>
        display = "loading" /\ display' \in {"ready", "error"} ]_vars

\* a token that decodes without error and carries no therapist_id claim, or
\* a falsy one
DecodesWithoutClaim(tok) ==
  /\ tok.kind = "jwt"
  /\ \/ tok.payload.t # "obj"
     \/ "therapist_id" \notin DOMAIN tok.payload.o
     \/ tok.payload.o["therapist_id"] \in {Num(0), Null, Undef, EmptyStr}

\* C11: with a token that decodes but carries no (or a falsy) therapist_id
\* claim, the identifier stays null from the mount on, never the fallback;
\* no read request is issued or outstanding, no cache entry is filled, and
\* the form, the snapshot and the preview keep their initial values.
C11_UnresolvedWithoutClaim ==
  phase # "init" /\ DecodesWithoutClaim(token) =>
    /\ therapistId = Null
    /\ therapistId # Num(FallbackId)
    /\ attempts = 0 /\ qFetch = "idle"
    /\ last.op \notin ReadOps \cup {"fetch"}
    /\ \A k \in Keys : cache[k] = Undef
    /\ form = EmptyForm
    /\ snapshot = <<>>
    /\ preview = Null

C11_Witness ==
  /\ phase = "unmounted"
  /\ token = Jwt(Obj([role |-> Str(<<"therapist">>)]))
  /\ therapistId = Null
  /\ attempts = 0
  /\ form = EmptyForm

====
